---- MODULE Spec2Model ----
(***************************************************************************)
(* CellTrackingDataset (biogtr/datasets/cell_tracking_dataset.py):         *)
(* construction and get_instances, one loop iteration per step.            *)
(*                                                                         *)
(* An image is a sequence of rows, each a sequence of pixel values; Python *)
(* indices are 0-based, so pixel (row r, column c) is image[r + 1][c + 1]. *)
(* None is modelled by the empty option: gt_list.given = FALSE,            *)
(* augmentations = <<>>, result = <<>> (a returned list fl is <<fl>>).     *)
(***************************************************************************)
EXTENDS Integers, Sequences, FiniteSets, TLC

\* ------------------------------------------------------------------ bounds
\* videos of the dataset, frames of a video, length of a frame_idx argument
NumVideos == 2
NumFrames == 2
MaxIdxLen == 2

\* the <<crop_size, padding>> pairs tried
Geometries == {<<1, 0>>, <<2, 1>>}
\* the track_id columns of the tables tried
Columns == {<<>>, <<1>>, <<2, 1>>, <<1, 1>>, <<0, 2>>}

\* ------------------------------------------------------- generic helpers
SeqsUpTo(S, n) == UNION {[1..m -> S] : m \in 0..n}

Range(s) == {s[k] : k \in DOMAIN s}

SetMin(S) == CHOOSE m \in S : \A e \in S : m <= e

SetMax(S) == CHOOSE m \in S : \A e \in S : m >= e

RECURSIVE Ascending(_)
Ascending(S) == IF S = {} THEN <<>> ELSE <<SetMin(S)>> \o Ascending(S \ {SetMin(S)})

Height(image) == Len(image)

Width(image) == Len(image[1])

Positions(image) == (0..(Height(image) - 1)) \X (0..(Width(image) - 1))

PixelValues(image) == {image[p[1] + 1][p[2] + 1] : p \in Positions(image)}

\* ------------------------------------------------------------ the files
Image(dtype, px) == [ok |-> TRUE, dtype |-> dtype, px |-> px]

MissingFile == [ok |-> FALSE, dtype |-> "none", px |-> <<>>]

LabelTwo == Image("uint8", <<<<2, 0, 0>>, <<0, 1, 1>>>>)
LabelOne == Image("uint8", <<<<1, 1, 0>>, <<0, 0, 0>>>>)
LabelEmpty == Image("uint8", <<<<0, 0, 0>>, <<0, 0, 0>>>>)
LabelOnlyTwo == Image("uint8", <<<<0, 0, 0>>, <<0, 2, 2>>>>)
LabelMiddle == Image("uint8", <<<<0, 1, 0>>, <<0, 1, 0>>>>)

RawByte == Image("uint8", <<<<10, 20, 30>>, <<40, 50, 60>>>>)
RawWord == Image("uint16", <<<<100, 101, 107>>, <<100, 103, 107>>>>)
RawWide == Image("uint16", <<<<0, 256, 65535>>, <<257, 65534, 0>>>>)
RawConst == Image("uint16", <<<<500, 500, 500>>, <<500, 500, 500>>>>)

Catalogue ==
    << [raw |-> RawByte, gt |-> LabelTwo],
       [raw |-> RawWord, gt |-> LabelOne],
       [raw |-> RawByte, gt |-> LabelEmpty],
       [raw |-> RawConst, gt |-> LabelOnlyTwo],
       [raw |-> RawWide, gt |-> LabelMiddle],
       [raw |-> MissingFile, gt |-> LabelOne] >>

Paths == {"raw", "gt"} \X (0..(NumVideos - 1)) \X (0..(NumFrames - 1))

\* the disk whose frames are the catalogue's, starting after entry o
Disk(o) ==
    [p \in Paths |->
        LET e == Catalogue[((o + p[2] * NumFrames + p[3]) % Len(Catalogue)) + 1]
        IN  IF p[1] = "raw" THEN e.raw ELSE e.gt]

PathList(kind) ==
    [v \in 1..NumVideos |-> [f \in 1..NumFrames |-> <<kind, v - 1, f - 1>>]]

\* ------------------------------------------------------------- variables
VARIABLES
    files,          \* the image files on disk, by path
    nanCast,        \* what this build's float -> uint8 cast makes of NaN
    videos,         \* self.videos
    labels,         \* self.labels
    padding,        \* self.padding
    crop_size,      \* self.crop_size
    gt_list,        \* self.gt_list
    augmentations,  \* self.augmentations
    pc,             \* "idle", "loop", "returned", "raised"
    label_idx,      \* argument of the running or last call
    frame_idx,      \* argument of the running or last call
    n,              \* iterations of the outer loop the call completed
    frames,         \* local list of get_instances, <<>> once the call is over
    img,            \* local of the last iteration (before unsqueeze), likewise
    centroids,      \* local of the last iteration, likewise
    result,         \* what the caller received
    prev            \* without augmentation: what the preceding call returned,
                    \* when it had the arguments of this one

config == <<videos, labels, padding, crop_size, gt_list, augmentations>>

call == <<pc, label_idx, frame_idx, n, frames, img, centroids, result, prev>>

vars == <<files, nanCast, config, call>>

\* ------------------------------------------------- the library functions
\* np.unique: the distinct values, ascending
np_unique(gt_sec) == Ascending(PixelValues(gt_sec))

\* mutant of pd_unique: the column as it is, repeated ids kept
pd_unique_keeps_repeats(col) == col

\* pandas Series.unique: the distinct values in order of first appearance
pd_unique(col) ==
    LET F[k \in 0..Len(col)] ==
            IF k = 0 THEN <<>>
            ELSE IF \E j \in 1..(k - 1) : col[j] = col[k] THEN F[k - 1]
                 ELSE Append(F[k - 1], col[k])
    IN  F[Len(col)]

\* the sum of the positions' coordinates along an axis (1 rows, 2 columns)
RECURSIVE SumCoord(_, _)
SumCoord(mask, axis) ==
    IF mask = {} THEN 0
    ELSE LET p == CHOOSE q \in mask : TRUE
         IN  p[axis] + SumCoord(mask \ {p}, axis)

\* scipy center_of_mass of the mask gt_sec == instance: (row, column) means,
\* each a fraction <<numerator, denominator>>
center_of_mass(gt_sec, instance) ==
    LET mask == {p \in Positions(gt_sec) : gt_sec[p[1] + 1][p[2] + 1] = instance}
    IN  << <<SumCoord(mask, 1), Cardinality(mask)>>,
           <<SumCoord(mask, 2), Cardinality(mask)>> >>

\* int() of a non-negative fraction
ToInt(q) == q[1] \div q[2]

\* data_utils.get_bbox(center, size): [y1, x1, y2, x2] of side size around center
get_bbox(center, size) ==
    LET cx == center[1]
        cy == center[2]
    IN  << ((-size) \div 2) + cy, ((-size) \div 2) + cx,
           (size \div 2) + cy, (size \div 2) + cx >>

\* data_utils.pad_bbox: the box grown by pad on each side
pad_bbox(bbox, pad) == <<bbox[1] - pad, bbox[2] - pad, bbox[3] + pad, bbox[4] + pad>>

\* data_utils.crop_bbox: the patch at the box, 0 where the box leaves the image
crop_bbox(image, bbox) ==
    [r \in 1..(bbox[3] - bbox[1]) |->
        [c \in 1..(bbox[4] - bbox[2]) |->
            LET y == bbox[1] + r - 1
                x == bbox[2] + c - 1
            IN  IF <<y, x>> \in Positions(image) THEN image[y + 1][x + 1] ELSE 0]]

\* --------------------------------------------------- depth rescaling
\* the pairs <<k, d>>, d in 1..16 or d = 65535, for which the binary64 product
\* k * (1 / d * 255) lies just below the integer k * 255 / d
RoundsBelow == {<<7, 7>>, <<14, 14>>}

\* int of the binary64 value k * (1 / d * 255), for 0 <= k <= d, d > 0
ScaleTo8(k, d) == ((k * 255) \div d) - (IF <<k, d>> \in RoundsBelow THEN 1 ELSE 0)

\* (img - img.min()) * (1 / (img.max() - img.min()) * 255), as uint8: with
\* max = min the factor is inf, every product 0 * inf is NaN, and the cast
\* of NaN is whatever the build makes of it
Rescaled(px) ==
    LET lo == SetMin(PixelValues(px))
        hi == SetMax(PixelValues(px))
    IN  [r \in 1..Height(px) |->
            [c \in 1..Width(px) |->
                IF hi = lo THEN nanCast ELSE ScaleTo8(px[r][c] - lo, hi - lo)]]

\* np.array(Image.open(img)) followed by the uint16 branch
LoadRaw(file) == IF file.dtype = "uint16" THEN Rescaled(file.px) ELSE file.px

\* ------------------------------------------------ objects of one frame
unique_instances(gt_sec) ==
    IF gt_list.given THEN pd_unique(gt_list.track_id) ELSE np_unique(gt_sec)

\* mutant of InFrame: the background id is not excluded
InFrame_with_background(instance, gt_sec) == instance \in PixelValues(gt_sec)

InFrame(instance, gt_sec) == instance \in PixelValues(gt_sec) /\ instance # 0

gt_track_ids(gt_sec) ==
    SelectSeq(unique_instances(gt_sec), LAMBDA instance : InFrame(instance, gt_sec))

\* x, y = center_of_mass[::-1]
Centroid(gt_sec, instance) ==
    LET com == center_of_mass(gt_sec, instance) IN <<com[2], com[1]>>

\* mutant of BBox: the box is not padded
BBox_unpadded(gt_sec, instance) ==
    LET c == Centroid(gt_sec, instance)
    IN  get_bbox(<<ToInt(c[1]), ToInt(c[2])>>, crop_size)

BBox(gt_sec, instance) ==
    LET c == Centroid(gt_sec, instance)
    IN  pad_bbox(get_bbox(<<ToInt(c[1]), ToInt(c[2])>>, crop_size), padding)

Centroids(gt_sec) ==
    LET ids == gt_track_ids(gt_sec)
    IN  [k \in 1..Len(ids) |-> Centroid(gt_sec, ids[k])]

\* ------------------------------------------------------- augmentation
FillDraws == {0, 255}

IsCoarseDropout(transform) == transform.name = "CoarseDropout"

DropoutIndices(pipeline) == {k \in DOMAIN pipeline : IsCoarseDropout(pipeline[k])}

\* transform.fill_value = random.randint(0, 255) for each CoarseDropout
Refilled(pipeline, draw) ==
    [k \in DOMAIN pipeline |->
        IF IsCoarseDropout(pipeline[k])
        THEN [pipeline[k] EXCEPT !.fill_value = draw[k]]
        ELSE pipeline[k]]

\* mutant of VStackFails: an empty keypoint list is accepted
VStackFails_never(cents) == FALSE

\* np.vstack raises ValueError on an empty list
VStackFails(cents) == Len(cents) = 0

\* the keypoints the pipeline returns: those of cents at the indices in keep
Retained(cents, keep) ==
    LET F[k \in 0..Len(cents)] ==
            IF k = 0 THEN <<>>
            ELSE IF k \in keep THEN Append(F[k - 1], cents[k]) ELSE F[k - 1]
    IN  F[Len(cents)]

\* the image the pipeline returns: a dropout hole, filled with the transform's
\* fill value, covers each keypoint that was dropped
AugmentedImage(image, cents, keep, pipeline) ==
    LET holes == {<<ToInt(cents[k][2]), ToInt(cents[k][1])>> :
                      k \in (DOMAIN cents) \ keep}
        cd == DropoutIndices(pipeline)
    IN  IF cd = {} THEN image
        ELSE [r \in 1..Height(image) |->
                [c \in 1..Width(image) |->
                    IF <<r - 1, c - 1>> \in holes
                    THEN pipeline[SetMax(cd)].fill_value
                    ELSE image[r][c]]]

\* ----------------------------------------------------- the Frame record
\* the value of i after `for i in range(len(gt_track_ids))`
LoopVarAfter(i, ids) == IF Len(ids) > 0 THEN Len(ids) - 1 ELSE i

Instances(image, gt_sec) ==
    LET ids == gt_track_ids(gt_sec)
    IN  [k \in 1..Len(ids) |->
            [gt_track_id |-> ids[k],
             pred_track_id |-> -1,
             bbox |-> BBox(gt_sec, ids[k]),
             crop |-> crop_bbox(image, BBox(gt_sec, ids[k]))]]

FrameOf(image, gt_sec, i) ==
    [video_id |-> label_idx,
     frame_id |-> LoopVarAfter(i, gt_track_ids(gt_sec)),
     img_shape |-> <<1, Height(image), Width(image)>>,
     instances |-> Instances(image, gt_sec)]

\* ------------------------------------------------------- construction
TrackTables ==
    {[given |-> FALSE, track_id |-> <<>>]}
        \cup {[given |-> TRUE, track_id |-> col] : col \in Columns}

Pipelines ==
    { <<>>,
      <<[name |-> "Rotate", fill_value |-> 0],
        [name |-> "CoarseDropout", fill_value |-> 0]>> }

NanCasts == {0, 255}

Init ==
    /\ \E o \in {k * NumFrames : k \in 0..((Len(Catalogue) - 1) \div NumFrames)} :
           files = Disk(o)
    /\ nanCast \in NanCasts
    /\ videos = PathList("raw")
    /\ labels = PathList("gt")
    /\ \E g \in Geometries : crop_size = g[1] /\ padding = g[2]
    /\ gt_list \in TrackTables
    /\ augmentations \in Pipelines
    /\ pc = "idle"
    /\ label_idx = 0
    /\ frame_idx = <<>>
    /\ n = 0
    /\ frames = <<>>
    /\ img = <<>>
    /\ centroids = <<>>
    /\ result = <<>>
    /\ prev = <<>>

\* ------------------------------------------------------- get_instances
\* mutant of InitFrames: the list the preceding call returned is reused
InitFrames_stale == IF pc = "returned" THEN result[1] ELSE <<>>

\* frames = []
InitFrames == <<>>

\* mutant of FrameIndex: the indices are taken in ascending order
FrameIndex_sorted ==
    LET below(i) == Cardinality({k \in DOMAIN frame_idx : frame_idx[k] < i})
        upto(i) == Cardinality({k \in DOMAIN frame_idx : frame_idx[k] <= i})
    IN  CHOOSE i \in Range(frame_idx) : below(i) <= n /\ n < upto(i)

\* for i in frame_idx: the element the iteration about to run takes
FrameIndex == frame_idx[n + 1]

\* the files of the iteration about to run
RawFile == files[videos[label_idx + 1][FrameIndex + 1]]

GtFile == files[labels[label_idx + 1][FrameIndex + 1]]

Call(v, idx) ==
    /\ pc \in {"idle", "returned", "raised"}
    /\ pc' = "loop"
    /\ label_idx' = v
    /\ frame_idx' = idx
    /\ n' = 0
    /\ frames' = InitFrames
    /\ img' = <<>>
    /\ centroids' = <<>>
    /\ result' = <<>>
    /\ prev' = IF pc = "returned" /\ v = label_idx /\ idx = frame_idx
                  /\ augmentations = <<>>
               THEN result ELSE <<>>
    /\ UNCHANGED <<files, nanCast, config>>

\* Image.open raises on a missing file
OpenFails ==
    /\ pc = "loop"
    /\ n < Len(frame_idx)
    /\ ~(RawFile.ok /\ GtFile.ok)
    /\ pc' = "raised"
    /\ frames' = <<>> /\ img' = <<>> /\ centroids' = <<>>
    /\ UNCHANGED <<files, nanCast, config, label_idx, frame_idx, n, result, prev>>

\* one iteration of the outer loop, self.augmentations is None
Iterate ==
    /\ pc = "loop"
    /\ n < Len(frame_idx)
    /\ RawFile.ok /\ GtFile.ok
    /\ augmentations = <<>>
    /\ img' = LoadRaw(RawFile)
    /\ frames' = Append(frames, FrameOf(LoadRaw(RawFile), GtFile.px, FrameIndex))
    /\ centroids' = Centroids(GtFile.px)
    /\ n' = n + 1
    /\ UNCHANGED <<files, nanCast, config, pc, label_idx, frame_idx, result, prev>>

\* the iteration stops at np.vstack, after the fill values were drawn
AugmentFails ==
    /\ pc = "loop"
    /\ n < Len(frame_idx)
    /\ RawFile.ok /\ GtFile.ok
    /\ augmentations # <<>>
    /\ VStackFails(Centroids(GtFile.px))
    /\ \E draw \in [DropoutIndices(augmentations) -> FillDraws] :
           augmentations' = Refilled(augmentations, draw)
    /\ pc' = "raised"
    /\ frames' = <<>> /\ img' = <<>> /\ centroids' = <<>>
    /\ UNCHANGED <<files, nanCast, videos, labels, padding, crop_size, gt_list,
                   label_idx, frame_idx, n, result, prev>>

\* one iteration of the outer loop with the pipeline applied
IterateAugmented ==
    /\ pc = "loop"
    /\ n < Len(frame_idx)
    /\ RawFile.ok /\ GtFile.ok
    /\ augmentations # <<>>
    /\ ~VStackFails(Centroids(GtFile.px))
    /\ \E draw \in [DropoutIndices(augmentations) -> FillDraws] :
       \E keep \in SUBSET (DOMAIN Centroids(GtFile.px)) :
           LET pipeline == Refilled(augmentations, draw)
               cents == Centroids(GtFile.px)
               aug == AugmentedImage(LoadRaw(RawFile), cents, keep, pipeline)
           IN  /\ augmentations' = pipeline
               /\ img' = aug
               /\ centroids' = Retained(cents, keep)
               /\ frames' = Append(frames, FrameOf(aug, GtFile.px, FrameIndex))
    /\ n' = n + 1
    /\ UNCHANGED <<files, nanCast, videos, labels, padding, crop_size, gt_list,
                   pc, label_idx, frame_idx, result, prev>>

\* return frames
Return ==
    /\ pc = "loop"
    /\ n = Len(frame_idx)
    /\ result' = <<frames>>
    /\ pc' = "returned"
    /\ frames' = <<>> /\ img' = <<>> /\ centroids' = <<>>
    /\ UNCHANGED <<files, nanCast, config, label_idx, frame_idx, n, prev>>

Next ==
    \/ \E v \in 0..(NumVideos - 1) :
       \E idx \in SeqsUpTo(0..(NumFrames - 1), MaxIdxLen) : Call(v, idx)
    \/ OpenFails
    \/ Iterate
    \/ AugmentFails
    \/ IterateAugmented
    \/ Return

Spec == Init /\ [][Next]_vars

\* ------------------------------------------------------------ claims
\* the files at position frame_idx[k] of the video of the call
RawAt(k) == files[videos[label_idx + 1][frame_idx[k] + 1]]

LabelAt(k) == files[labels[label_idx + 1][frame_idx[k] + 1]]

Returned == pc = "returned"

Records == result[1]

\* the Frame records in existence: the caller's, or those of the running call
Built == IF Returned THEN Records ELSE frames

IdsOf(record) == {record.instances[j].gt_track_id : j \in DOMAIN record.instances}

CountOf(record, t) ==
    Cardinality({j \in DOMAIN record.instances : record.instances[j].gt_track_id = t})

\* C1: the k-th Frame record of a returned call carries video id video_index
\* and frame id frame_index_list[k], whatever number of objects the frame has.
C1_FrameIdentity ==
    Returned =>
        \A k \in DOMAIN Records :
            /\ Records[k].video_id = label_idx
            /\ Records[k].frame_id = frame_idx[k]

\* C2: with augmentation configured, a frame whose augmentation dropped
\* centroids has Object instances only for the centroids that were retained.
C2_NoObjectForDroppedCentroid ==
    (pc = "loop" /\ n > 0 /\ augmentations # <<>>) =>
        Len(frames[n].instances) = Len(centroids)

\* C5: no step of get_instances changes a field of the dataset or of the
\* objects it holds (path lists, padding, crop_size, track table, pipeline
\* and its transforms' parameters).
C5_ConfigurationNeverChanges == [][config' = config]_vars

\* C10: a 16-bit raw frame with minimum lo and maximum hi is rescaled to
\* values in 0..255, non-decreasing in the original value and affine up to the
\* integer cast, with lo mapped to 0 and hi to 255, also when lo = hi; a frame
\* that is not 16-bit is left unchanged.
C10_DepthRescaling ==
    (pc = "loop" /\ n > 0 /\ augmentations = <<>>) =>
        LET src == RawAt(n).px
            lo == SetMin(PixelValues(src))
            hi == SetMax(PixelValues(src))
            P == Positions(src)
            in(p) == src[p[1] + 1][p[2] + 1]
            out(p) == img[p[1] + 1][p[2] + 1]
        IN  IF RawAt(n).dtype = "uint16"
            THEN /\ \A p \in P : out(p) \in 0..255
                 /\ \A p, q \in P : in(p) <= in(q) => out(p) <= out(q)
                 /\ \A p \in P : in(p) = lo => out(p) = 0
                 /\ \A p \in P : in(p) = hi => out(p) = 255
                 /\ \A p \in P :
                        /\ out(p) * (hi - lo) <= (in(p) - lo) * 255
                        /\ (in(p) - lo) * 255 < (out(p) + 1) * (hi - lo) \/ hi = lo
            ELSE img = src

\* the ids a frame's label image holds, the background excepted
NonzeroIds(k) == PixelValues(LabelAt(k).px) \ {0}

Listed(t) == gt_list.given => t \in Range(gt_list.track_id)

\* every id in sight: the background, the table's and the label images'
AllIds ==
    {0} \cup Range(gt_list.track_id)
        \cup UNION {PixelValues(files[p].px) : p \in {q \in Paths : q[1] = "gt" /\ files[q].ok}}

\* C3 as stated: without augmentation a Frame record has exactly one Object
\* per nonzero id of the frame's label image and none for any other id,
\* with or without a track table and whatever the table lists.
C3_OnePerPixelId ==
    (Returned /\ augmentations = <<>>) =>
        \A k \in DOMAIN Records : \A t \in AllIds :
            CountOf(Records[k], t) = IF t \in NonzeroIds(k) THEN 1 ELSE 0

\* C3 as amended: without augmentation a Frame record has exactly one Object
\* per nonzero id of the frame's label image that the track table lists (every
\* such id when no table is supplied), and none for any other id.
C3_OnePerListedPixelId ==
    (Returned /\ augmentations = <<>>) =>
        \A k \in DOMAIN Records : \A t \in AllIds :
            CountOf(Records[k], t) = IF t \in NonzeroIds(k) /\ Listed(t) THEN 1 ELSE 0

C3_Witness ==
    /\ Returned /\ augmentations = <<>> /\ gt_list.given
    /\ \E k \in DOMAIN Records :
           /\ Records[k].instances # <<>>
           /\ \E t \in NonzeroIds(k) : ~Listed(t)

\* C4: no Object of a returned Frame record has track id 0 or a track id
\* that has no pixel in the frame's label image, also for ids the track
\* table lists.
C4_OnlyIdsOfTheFrame ==
    Returned =>
        \A k \in DOMAIN Records : \A t \in IdsOf(Records[k]) :
            t # 0 /\ t \in PixelValues(LabelAt(k).px)

C4_Witness ==
    /\ Returned /\ gt_list.given
    /\ \E k \in DOMAIN Records :
           /\ Records[k].instances # <<>>
           /\ \E t \in Range(gt_list.track_id) : t # 0 /\ t \notin NonzeroIds(k)

\* C6: a returned call has one Frame record per element of frame_index_list,
\* the k-th built from the raw and label images at position frame_index_list[k]
\* (its shape, its Object ids and, without augmentation, its crops), in the
\* order of the list, sorted or not, with or without repeats.
C6_OrderOfTheIndexList ==
    Returned =>
        /\ Len(Records) = Len(frame_idx)
        /\ \A k \in DOMAIN Records :
               /\ IdsOf(Records[k]) = {t \in NonzeroIds(k) : Listed(t)}
               /\ Records[k].img_shape
                      = <<1, Height(RawAt(k).px), Width(RawAt(k).px)>>
               /\ augmentations = <<>> =>
                      \A j \in DOMAIN Records[k].instances :
                          Records[k].instances[j].crop
                              = crop_bbox(LoadRaw(RawAt(k)), Records[k].instances[j].bbox)

C6_Witness ==
    /\ Returned /\ Len(frame_idx) = 2
    /\ frame_idx[1] > frame_idx[2]
    /\ IdsOf(Records[1]) # IdsOf(Records[2])
    /\ IdsOf(Records[1]) # {}

\* C7: a call in which a frame fails (a file cannot be opened, or the
\* pipeline is given no keypoints) hands the caller no Frame record, and a
\* call that returns has skipped no frame: every frame of the list was
\* readable, had an object when augmentation is configured, and has its record.
C7_FailureIsTotal ==
    /\ pc = "raised" => result = <<>>
    /\ Returned =>
           /\ Len(Records) = Len(frame_idx)
           /\ \A k \in DOMAIN frame_idx :
                  /\ RawAt(k).ok /\ LabelAt(k).ok
                  /\ augmentations # <<>> => \E t \in NonzeroIds(k) : Listed(t)

C7_Witness == pc = "raised" /\ n >= 1 /\ result = <<>>

\* C8: without augmentation, a call with the arguments of the call before it
\* returns the same Frame records: as many, each with the same video id, frame
\* id, shape and Objects (ids, boxes, crops, predicted id -1).
C8_SameArgumentsSameRecords ==
    (Returned /\ prev # <<>>) =>
        /\ result = prev
        /\ \A k \in DOMAIN Records : \A j \in DOMAIN Records[k].instances :
               Records[k].instances[j].pred_track_id = -1

C8_Witness ==
    /\ Returned /\ prev # <<>> /\ augmentations = <<>>
    /\ \E k \in DOMAIN Records : Len(Records[k].instances) = 2

\* C9: every crop has crop_size + 2 * padding rows and as many columns,
\* wherever the centroid lies, also when the padded box leaves the image,
\* with or without augmentation.
C9_CropSize ==
    \A k \in DOMAIN Built : \A j \in DOMAIN Built[k].instances :
        LET crop == Built[k].instances[j].crop
        IN  /\ Len(crop) = crop_size + 2 * padding
            /\ \A r \in DOMAIN crop : Len(crop[r]) = crop_size + 2 * padding

C9_Witness ==
    /\ padding > 0
    /\ augmentations # <<>>
    /\ \E k \in DOMAIN Built : \E j \in DOMAIN Built[k].instances :
           LET bbox == Built[k].instances[j].bbox
               shape == Built[k].img_shape
           IN  bbox[1] < 0 \/ bbox[2] < 0 \/ bbox[3] > shape[2] \/ bbox[4] > shape[3]

TypeOK == pc \in {"idle", "loop", "returned", "raised"}

====
